---------------------------- MODULE Spec2Model ----------------------------
(***************************************************************************)
(* State-machine model of the classes of src/script.py (BankAccount, User,  *)
(* SystemUser, Employee / Developer / Manager) and of                       *)
(* "src/O-O-P in python MSIT/classes.py" (BankAcc).                         *)
(*                                                                         *)
(* Strings are sequences of one-character strings, so that upper(),        *)
(* lower(), strip(), len() and "in" are computed character by character.   *)
(* Amounts and balances are integers.                                      *)
(*                                                                         *)
(* The classes share no state except the class-level counters, so a        *)
(* behaviour exercises one class, chosen in Init and held in scope: the     *)
(* BankAccount object, the BankAcc object, the User object, the SystemUser *)
(* class or the Employee class with its subclasses (the objects of the     *)
(* last two are created by actions, and counted by the class), or the      *)
(* Product class with the objects its operators are applied to.            *)
(*                                                                         *)
(* Every call records what a caller can observe of it: op (the method),    *)
(* arg (its arguments), ret (the value returned, None for a method that    *)
(* falls off its end and for a property assignment), printed (the line     *)
(* written to the console), raised (whether an exception left the call)    *)
(* and exception (the class of that exception).                            *)
(***************************************************************************)
EXTENDS Integers, Sequences, FiniteSets

\* ------------------------------------------------------------------ bounds

\* Amounts passed to deposit / withdraw range over -MaxAmount .. MaxAmount.
MaxAmount == 3
\* Balances are kept within -MaxBalance .. MaxBalance (guards of the deposits).
MaxBalance == 6
\* Initial balances of a BankAccount range over -MaxInitial .. MaxInitial.
MaxInitial == 2
\* Email candidates carry at most MaxPad blanks before and after their core.
MaxPad == 1
\* Password candidates have at most MaxPasswordLen characters.
MaxPasswordLen == 9
\* At most MaxObjects SystemUser objects, or Employee objects, are constructed.
MaxObjects == 3
\* At most MaxTeam team memberships are added, over all the Managers.
MaxTeam == 1
\* At most MaxProducts Product objects exist.
MaxProducts == 3

\* ----------------------------------------------------------------- strings

LowerLetters ==
    <<"a","b","c","d","e","f","g","h","i","j","k","l","m",
      "n","o","p","q","r","s","t","u","v","w","x","y","z">>
UpperLetters ==
    <<"A","B","C","D","E","F","G","H","I","J","K","L","M",
      "N","O","P","Q","R","S","T","U","V","W","X","Y","Z">>

\* The characters str.strip() removes from both ends.
Whitespace == {" "}

\* The upper-case letter of each lower-case letter, and the reverse.
ToUpper ==
    [c \in {LowerLetters[k] : k \in DOMAIN LowerLetters} |->
        UpperLetters[CHOOSE k \in DOMAIN LowerLetters : LowerLetters[k] = c]]
ToLower ==
    [c \in {UpperLetters[k] : k \in DOMAIN UpperLetters} |->
        LowerLetters[CHOOSE k \in DOMAIN UpperLetters : UpperLetters[k] = c]]

upper_char(c) == IF c \in DOMAIN ToUpper THEN ToUpper[c] ELSE c
lower_char(c) == IF c \in DOMAIN ToLower THEN ToLower[c] ELSE c

\* str.upper() and str.lower()
upper(s) == [k \in DOMAIN s |-> upper_char(s[k])]
lower(s) == [k \in DOMAIN s |-> lower_char(s[k])]

\* str.lstrip(), str.rstrip() and str.strip()
RECURSIVE lstrip(_)
lstrip(s) ==
    IF s # <<>> /\ Head(s) \in Whitespace THEN lstrip(Tail(s)) ELSE s

RECURSIVE rstrip(_)
rstrip(s) ==
    IF s # <<>> /\ s[Len(s)] \in Whitespace
    THEN rstrip(SubSeq(s, 1, Len(s) - 1))
    ELSE s

\* Mutant of strip: only the leading blanks are removed.
strip_leading_only(s) == lstrip(s)

strip(s) == rstrip(lstrip(s))

\* c in s, for a one-character c
contains(s, c) == \E k \in DOMAIN s : s[k] = c

\* c * n, for a one-character c
repeat(c, n) == [k \in 1 .. n |-> c]

\* The value of a call that returns nothing, and of a call returning v.
None == <<>>
Returned(v) == <<v>>

\* ------------------------------------------------------------------- state

VARIABLES
    scope,            \* the family of classes this behaviour exercises
    initial_balance,  \* the initial_balance BankAccount.__init__ was given
    balance,          \* BankAccount.__balance
    acc_balance,      \* BankAcc.__balance
    email,            \* User._email
    password,         \* User._password
    last_login,       \* User._last_login
    users,            \* the SystemUser objects, in the order of construction
    given_roles,      \* how many SystemUsers were constructed with each role
    user_count,       \* SystemUser.user_count
    dev_count,        \* SystemUser.dev_count
    admin_count,      \* SystemUser.admin_count
    regular_user_count, \* SystemUser.regular_user_count
    employees,        \* the Employee objects, in the order of construction
    employee_count,   \* Employee.employee_count
    products,         \* the Product objects, in the order of construction
    op, arg, ret, printed, raised,
    exception         \* the class of the exception that left the call, or ""

vars == <<scope, initial_balance, balance, acc_balance,
          email, password, last_login,
          users, given_roles,
          user_count, dev_count, admin_count, regular_user_count,
          employees, employee_count, products,
          op, arg, ret, printed, raised, exception>>

bank_account_vars == <<initial_balance, balance>>
bank_acc_vars == <<acc_balance>>
user_vars == <<email, password, last_login>>
system_user_counters ==
    <<user_count, dev_count, admin_count, regular_user_count>>
system_user_vars == <<users, given_roles, system_user_counters>>
employee_vars == <<employees, employee_count>>
product_vars == <<products>>

Amounts == (0 - MaxAmount) .. MaxAmount

\* The email candidates: a core with or without "@", ".", a letter that
\* lower() changes and an inner blank, between 0 .. MaxPad blanks on each side.
EmailCores ==
    { <<>>, <<"A">>, <<"A", "@">>, <<"A", ".">>, <<".", "@">>,
      <<"a", " ", "@", ".">>,
      <<"B", "o", "b", "@", "G", ".", "c", "o">> }
EmailCandidates ==
    { repeat(" ", i) \o core \o repeat(" ", j) :
        core \in EmailCores, i \in 0 .. MaxPad, j \in 0 .. MaxPad }

\* The password candidates: runs of "p" and runs of "*", the character the
\* getter masks with.
PasswordChars == {"p", "*"}
PasswordCandidates ==
    {repeat(c, n) : c \in PasswordChars, n \in 0 .. MaxPasswordLen}

\* The role strings handed to SystemUser.__init__ and to the role setter: in
\* upper, lower and mixed case, and one that is no role.
DEVELOPER == <<"D", "E", "V", "E", "L", "O", "P", "E", "R">>
ADMIN == <<"A", "D", "M", "I", "N">>
USER == <<"U", "S", "E", "R">>
RoleCandidates ==
    { DEVELOPER, <<"a", "d", "m", "i", "n">>, <<"U", "s", "e", "r">>,
      <<"g", "u", "e", "s", "t">> }

\* The role arguments of SystemUser.__init__, create_admin's ADMIN included.
InitialRoles ==
    { <<"D", "e", "v", "e", "l", "o", "p", "e", "r">>, ADMIN, USER,
      <<"g", "u", "e", "s", "t">> }

\* The email and password arguments of User.__init__, which stores them as
\* they are: an email the setter would take, one it would refuse, a password
\* the setter would take, one it would refuse.
InitialEmails == {<<"a", "@", ".">>, <<" ", "A">>}
InitialPasswords == {repeat("w", MaxPasswordLen), <<"w">>}

\* What a call leaves behind for its caller.
Call(o, a, r, p) ==
    /\ op' = o
    /\ arg' = a
    /\ ret' = r
    /\ printed' = p
    /\ raised' = FALSE
    /\ exception' = ""
    /\ UNCHANGED scope

\* What a call that ends in raise e leaves behind for its caller.
Raise(o, a, e) ==
    /\ op' = o
    /\ arg' = a
    /\ ret' = None
    /\ printed' = ""
    /\ raised' = TRUE
    /\ exception' = e
    /\ UNCHANGED scope

\* ------------------------------------------------------------- BankAccount

\* Mutant of BankAccount.deposit: the amount is not validated.
BankAccount_deposit_unvalidated(amount) ==
    /\ scope = "BankAccount"
    /\ balance + amount <= MaxBalance
    /\ balance' = balance + amount
    /\ Call("BankAccount.deposit", <<amount>>, None, "Deposited")
    /\ UNCHANGED <<initial_balance, bank_acc_vars, user_vars,
                 system_user_vars, employee_vars, product_vars>>

\* Mutant of BankAccount.deposit: the amount replaces the balance.
BankAccount_deposit_overwrite(amount) ==
    /\ scope = "BankAccount"
    /\ balance + amount <= MaxBalance
    /\ IF amount > 0
       THEN /\ balance' = amount
            /\ Call("BankAccount.deposit", <<amount>>, None, "Deposited")
       ELSE /\ balance' = balance
            /\ Call("BankAccount.deposit", <<amount>>, None,
                    "Invalid amount. Must be positive.")
    /\ UNCHANGED <<initial_balance, bank_acc_vars, user_vars,
                 system_user_vars, employee_vars, product_vars>>

\* BankAccount.deposit(amount)
BankAccount_deposit(amount) ==
    /\ scope = "BankAccount"
    /\ balance + amount <= MaxBalance
    /\ IF amount > 0
       THEN /\ balance' = balance + amount
            /\ Call("BankAccount.deposit", <<amount>>, None, "Deposited")
       ELSE /\ balance' = balance
            /\ Call("BankAccount.deposit", <<amount>>, None,
                    "Invalid amount. Must be positive.")
    /\ UNCHANGED <<initial_balance, bank_acc_vars, user_vars,
                 system_user_vars, employee_vars, product_vars>>

\* Mutant of BankAccount.withdraw: the balance is not compared with the amount.
BankAccount_withdraw_unchecked(amount) ==
    /\ scope = "BankAccount"
    /\ IF amount <= 0
       THEN /\ balance' = balance
            /\ Call("BankAccount.withdraw", <<amount>>, None,
                    "Invalid amount. Must be positive.")
       ELSE /\ balance' = balance - amount
            /\ Call("BankAccount.withdraw", <<amount>>, None, "Withdrew")
    /\ UNCHANGED <<initial_balance, bank_acc_vars, user_vars,
                 system_user_vars, employee_vars, product_vars>>

\* BankAccount.withdraw(amount)
BankAccount_withdraw(amount) ==
    /\ scope = "BankAccount"
    /\ IF amount <= 0
       THEN /\ balance' = balance
            /\ Call("BankAccount.withdraw", <<amount>>, None,
                    "Invalid amount. Must be positive.")
       ELSE IF amount > balance
       THEN /\ balance' = balance
            /\ Call("BankAccount.withdraw", <<amount>>, None,
                    "Insufficient funds.")
       ELSE /\ balance' = balance - amount
            /\ Call("BankAccount.withdraw", <<amount>>, None, "Withdrew")
    /\ UNCHANGED <<initial_balance, bank_acc_vars, user_vars,
                 system_user_vars, employee_vars, product_vars>>

\* BankAccount.get_balance()
BankAccount_get_balance ==
    /\ scope = "BankAccount"
    /\ Call("BankAccount.get_balance", <<>>, Returned(balance),
            "[LOG] Balance accessed")
    /\ UNCHANGED <<bank_account_vars, bank_acc_vars, user_vars,
                 system_user_vars, employee_vars, product_vars>>

\* ----------------------------------------------------------------- BankAcc

\* BankAcc.deposit(amount)
BankAcc_deposit(amount) ==
    /\ scope = "BankAcc"
    /\ acc_balance + amount \in (0 - MaxBalance) .. MaxBalance
    /\ acc_balance' = acc_balance + amount
    /\ Call("BankAcc.deposit", <<amount>>, None, "")
    /\ UNCHANGED <<bank_account_vars, user_vars,
                 system_user_vars, employee_vars, product_vars>>

\* BankAcc.get_balance()
BankAcc_get_balance ==
    /\ scope = "BankAcc"
    /\ Call("BankAcc.get_balance", <<>>, Returned(acc_balance), "")
    /\ UNCHANGED <<bank_account_vars, bank_acc_vars, user_vars,
                 system_user_vars, employee_vars, product_vars>>

\* -------------------------------------------------------------------- User

\* The minimum length the password setter asks for.
MinPasswordLen == 8

\* Mutant of the email getter: the access is recorded in _last_login.
User_email_get_touch ==
    /\ scope = "User"
    /\ last_login' = "datetime.now()"
    /\ Call("User.email", <<>>, Returned(email), "[LOG] Email accessed")
    /\ UNCHANGED <<bank_account_vars, bank_acc_vars, email, password,
                 system_user_vars, employee_vars, product_vars>>

\* User.email (getter)
User_email_get ==
    /\ scope = "User"
    /\ Call("User.email", <<>>, Returned(email), "[LOG] Email accessed")
    /\ UNCHANGED <<bank_account_vars, bank_acc_vars, user_vars,
                 system_user_vars, employee_vars, product_vars>>

\* Mutant of the email setter: the email is stored before it is validated.
User_email_set_eager(new_email) ==
    /\ scope = "User"
    /\ email' = strip(lower(new_email))
    /\ IF contains(new_email, "@") /\ contains(new_email, ".")
       THEN Call("User.email.setter", <<new_email>>, None, "Email updated")
       ELSE Call("User.email.setter", <<new_email>>, None,
                 "Invalid email format. Email not changed.")
    /\ UNCHANGED <<bank_account_vars, bank_acc_vars, password, last_login,
                 system_user_vars, employee_vars, product_vars>>

\* User.email (setter): user.email = new_email
User_email_set(new_email) ==
    /\ scope = "User"
    /\ IF contains(new_email, "@") /\ contains(new_email, ".")
       THEN /\ email' = strip(lower(new_email))
            /\ Call("User.email.setter", <<new_email>>, None, "Email updated")
       ELSE /\ email' = email
            /\ Call("User.email.setter", <<new_email>>, None,
                    "Invalid email format. Email not changed.")
    /\ UNCHANGED <<bank_account_vars, bank_acc_vars, password, last_login,
                 system_user_vars, employee_vars, product_vars>>

\* Mutant of the password getter: the mask has a fixed length.
User_password_get_fixed ==
    /\ scope = "User"
    /\ Call("User.password", <<>>, Returned(repeat("*", MinPasswordLen)),
            "[LOG] Password accessed")
    /\ UNCHANGED <<bank_account_vars, bank_acc_vars, user_vars,
                 system_user_vars, employee_vars, product_vars>>

\* User.password (getter)
User_password_get ==
    /\ scope = "User"
    /\ Call("User.password", <<>>, Returned(repeat("*", Len(password))),
            "[LOG] Password accessed")
    /\ UNCHANGED <<bank_account_vars, bank_acc_vars, user_vars,
                 system_user_vars, employee_vars, product_vars>>

\* Mutant of the password setter: a password of MinPasswordLen characters is
\* refused.
User_password_set_strict(new_password) ==
    /\ scope = "User"
    /\ IF Len(new_password) > MinPasswordLen
       THEN /\ password' = new_password
            /\ Call("User.password.setter", <<new_password>>, None,
                    "Password changed")
       ELSE /\ password' = password
            /\ Call("User.password.setter", <<new_password>>, None,
                    "Password too short! Must be at least 8 characters.")
    /\ UNCHANGED <<bank_account_vars, bank_acc_vars, email, last_login,
                 system_user_vars, employee_vars, product_vars>>

\* User.password (setter): user.password = new_password
User_password_set(new_password) ==
    /\ scope = "User"
    /\ IF Len(new_password) >= MinPasswordLen
       THEN /\ password' = new_password
            /\ Call("User.password.setter", <<new_password>>, None,
                    "Password changed")
       ELSE /\ password' = password
            /\ Call("User.password.setter", <<new_password>>, None,
                    "Password too short! Must be at least 8 characters.")
    /\ UNCHANGED <<bank_account_vars, bank_acc_vars, email, last_login,
                 system_user_vars, employee_vars, product_vars>>

\* User.login()
User_login ==
    /\ scope = "User"
    /\ last_login' = "datetime.now()"
    /\ Call("User.login", <<>>, None, "logged in")
    /\ UNCHANGED <<bank_account_vars, bank_acc_vars, email, password,
                 system_user_vars, employee_vars, product_vars>>

\* -------------------------------------------------------------- SystemUser

\* SystemUser.VALID_ROLES
VALID_ROLES == {DEVELOPER, ADMIN, USER}

other_vars == <<bank_account_vars, bank_acc_vars, user_vars>>

\* Mutant of SystemUser.__init__: the role is counted as it was given, not in
\* upper case.
SystemUser_init_raw_role(role, called_as) ==
    /\ scope = "SystemUser"
    /\ Len(users) < MaxObjects
    /\ users' = Append(users, [name |-> "Bob", email |-> "bob@gmail.com",
                               role |-> upper(role), password |-> "dev123456"])
    /\ user_count' = user_count + 1
    /\ IF role = DEVELOPER
       THEN /\ dev_count' = dev_count + 1
            /\ UNCHANGED <<admin_count, regular_user_count>>
       ELSE IF role = ADMIN
       THEN /\ admin_count' = admin_count + 1
            /\ UNCHANGED <<dev_count, regular_user_count>>
       ELSE /\ regular_user_count' = regular_user_count + 1
            /\ UNCHANGED <<dev_count, admin_count>>
    /\ given_roles' = [given_roles EXCEPT ![role] = @ + 1]
    /\ Call(called_as, <<role>>, Returned(Len(users) + 1), "USER created")
    /\ UNCHANGED <<other_vars, employee_vars, product_vars>>

\* Mutant of SystemUser.__init__: a role that is neither DEVELOPER nor ADMIN
\* is counted as a regular user only when it is USER.
SystemUser_init_valid_only(role, called_as) ==
    /\ scope = "SystemUser"
    /\ Len(users) < MaxObjects
    /\ LET _role == upper(role) IN
       /\ users' = Append(users, [name |-> "Bob", email |-> "bob@gmail.com",
                                  role |-> _role, password |-> "dev123456"])
       /\ user_count' = user_count + 1
       /\ IF _role = DEVELOPER
          THEN /\ dev_count' = dev_count + 1
               /\ UNCHANGED <<admin_count, regular_user_count>>
          ELSE IF _role = ADMIN
          THEN /\ admin_count' = admin_count + 1
               /\ UNCHANGED <<dev_count, regular_user_count>>
          ELSE IF _role = USER
          THEN /\ regular_user_count' = regular_user_count + 1
               /\ UNCHANGED <<dev_count, admin_count>>
          ELSE UNCHANGED <<dev_count, admin_count, regular_user_count>>
    /\ given_roles' = [given_roles EXCEPT ![role] = @ + 1]
    /\ Call(called_as, <<role>>, Returned(Len(users) + 1), "USER created")
    /\ UNCHANGED <<other_vars, employee_vars, product_vars>>

\* SystemUser.__init__(username, email, role, password)
SystemUser_init(role, called_as) ==
    /\ scope = "SystemUser"
    /\ Len(users) < MaxObjects
    /\ LET _role == upper(role) IN
       /\ users' = Append(users, [name |-> "Bob", email |-> "bob@gmail.com",
                                  role |-> _role, password |-> "dev123456"])
       /\ user_count' = user_count + 1
       /\ IF _role = DEVELOPER
          THEN /\ dev_count' = dev_count + 1
               /\ UNCHANGED <<admin_count, regular_user_count>>
          ELSE IF _role = ADMIN
          THEN /\ admin_count' = admin_count + 1
               /\ UNCHANGED <<dev_count, regular_user_count>>
          ELSE /\ regular_user_count' = regular_user_count + 1
               /\ UNCHANGED <<dev_count, admin_count>>
    /\ given_roles' = [given_roles EXCEPT ![role] = @ + 1]
    /\ Call(called_as, <<role>>, Returned(Len(users) + 1), "USER created")
    /\ UNCHANGED <<other_vars, employee_vars, product_vars>>

\* SystemUser(username, email, role, password)
SystemUser_new(role) == SystemUser_init(role, "SystemUser")

\* SystemUser.create_admin(username, email, password)
SystemUser_create_admin == SystemUser_init(ADMIN, "SystemUser.create_admin")

\* SystemUser.role (getter) of the i-th user
SystemUser_role_get(i) ==
    /\ scope = "SystemUser"
    /\ i \in DOMAIN users
    /\ Call("SystemUser.role", <<i>>, Returned(users[i].role), "")
    /\ UNCHANGED <<other_vars, system_user_vars, employee_vars, product_vars>>

\* Mutant of the role setter: the role is stored as it was given.
SystemUser_role_set_no_upper(i, new_role) ==
    /\ scope = "SystemUser"
    /\ i \in DOMAIN users
    /\ IF new_role \in VALID_ROLES
       THEN /\ users' = [users EXCEPT ![i].role = new_role]
            /\ Call("SystemUser.role.setter", <<i, new_role>>, None,
                    "Role changed")
       ELSE /\ users' = users
            /\ Call("SystemUser.role.setter", <<i, new_role>>, None,
                    "Invalid role. Must be one of: DEVELOPER, ADMIN, USER")
    /\ UNCHANGED <<other_vars, given_roles, system_user_counters,
                   employee_vars, product_vars>>

\* Mutant of the role setter: an accepted write takes the user out of the
\* counter of the developers when the user was one.
SystemUser_role_set_recount(i, new_role) ==
    /\ scope = "SystemUser"
    /\ i \in DOMAIN users
    /\ LET new_role_ == upper(new_role) IN
       IF new_role_ \in VALID_ROLES
       THEN /\ users' = [users EXCEPT ![i].role = new_role_]
            /\ dev_count' = IF users[i].role = DEVELOPER
                            THEN dev_count - 1 ELSE dev_count
            /\ Call("SystemUser.role.setter", <<i, new_role>>, None,
                    "Role changed")
       ELSE /\ users' = users
            /\ dev_count' = dev_count
            /\ Call("SystemUser.role.setter", <<i, new_role>>, None,
                    "Invalid role. Must be one of: DEVELOPER, ADMIN, USER")
    /\ UNCHANGED <<other_vars, given_roles, user_count, admin_count,
                   regular_user_count, employee_vars, product_vars>>

\* Mutant of the role setter: an accepted write counts the user under the new
\* role when that role is ADMIN.
SystemUser_role_set_count_new(i, new_role) ==
    /\ scope = "SystemUser"
    /\ i \in DOMAIN users
    /\ LET new_role_ == upper(new_role) IN
       IF new_role_ \in VALID_ROLES
       THEN /\ users' = [users EXCEPT ![i].role = new_role_]
            /\ admin_count' = IF new_role_ = ADMIN
                              THEN admin_count + 1 ELSE admin_count
            /\ Call("SystemUser.role.setter", <<i, new_role>>, None,
                    "Role changed")
       ELSE /\ users' = users
            /\ admin_count' = admin_count
            /\ Call("SystemUser.role.setter", <<i, new_role>>, None,
                    "Invalid role. Must be one of: DEVELOPER, ADMIN, USER")
    /\ UNCHANGED <<other_vars, given_roles, user_count, dev_count,
                   regular_user_count, employee_vars, product_vars>>

\* SystemUser.role (setter): users[i].role = new_role
SystemUser_role_set(i, new_role) ==
    /\ scope = "SystemUser"
    /\ i \in DOMAIN users
    /\ LET new_role_ == upper(new_role) IN
       IF new_role_ \in VALID_ROLES
       THEN /\ users' = [users EXCEPT ![i].role = new_role_]
            /\ Call("SystemUser.role.setter", <<i, new_role>>, None,
                    "Role changed")
       ELSE /\ users' = users
            /\ Call("SystemUser.role.setter", <<i, new_role>>, None,
                    "Invalid role. Must be one of: DEVELOPER, ADMIN, USER")
    /\ UNCHANGED <<other_vars, given_roles, system_user_counters,
                   employee_vars, product_vars>>

\* SystemUser.get_statistics()
SystemUser_get_statistics ==
    /\ scope = "SystemUser"
    /\ Call("SystemUser.get_statistics", <<>>,
            Returned([total_users |-> user_count,
                      developers |-> dev_count,
                      admins |-> admin_count,
                      regular_users |-> regular_user_count]), "")
    /\ UNCHANGED <<other_vars, system_user_vars, employee_vars, product_vars>>

\* ---------------------------------------------- Employee, Developer, Manager

\* Employee.__init__(name, employee_id, salary), also reached through
\* super().__init__ from Developer.__init__ and Manager.__init__
Employee_init(kind) ==
    /\ scope = "Employee"
    /\ Len(employees) < MaxObjects
    /\ employees' = Append(employees, [kind |-> kind, name |-> "Alice",
                                       salary |-> 80000, team |-> <<>>])
    /\ employee_count' = employee_count + 1
    /\ Call(kind, <<>>, Returned(Len(employees) + 1), "")
    /\ UNCHANGED <<other_vars, system_user_vars, product_vars>>

\* Employee(name, employee_id, salary)
Employee_new == Employee_init("Employee")

\* Mutant of Developer.__init__: super().__init__ is not called, so the
\* developer is not counted.
Developer_new_no_super ==
    /\ scope = "Employee"
    /\ Len(employees) < MaxObjects
    /\ employees' = Append(employees, [kind |-> "Developer", name |-> "Alice",
                                       salary |-> 80000, team |-> <<>>])
    /\ employee_count' = employee_count
    /\ Call("Developer", <<>>, Returned(Len(employees) + 1), "")
    /\ UNCHANGED <<other_vars, system_user_vars, product_vars>>

\* Developer(name, employee_id, salary, programming_language)
Developer_new == Employee_init("Developer")

\* Manager(name, employee_id, salary, department)
Manager_new == Employee_init("Manager")

\* Employee.work(), Developer.work() and Manager.work() of the e-th employee
Employee_work(e) ==
    /\ scope = "Employee"
    /\ e \in DOMAIN employees
    /\ Call("work", <<e>>, None,
            CASE employees[e].kind = "Developer" -> "is developing software"
              [] employees[e].kind = "Manager" -> "is managing the department"
              [] OTHER -> "is working")
    /\ UNCHANGED <<other_vars, system_user_vars, employee_vars, product_vars>>

\* Employee.get_salary() of the e-th employee
Employee_get_salary(e) ==
    /\ scope = "Employee"
    /\ e \in DOMAIN employees
    /\ Call("get_salary", <<e>>, Returned(employees[e].salary), "")
    /\ UNCHANGED <<other_vars, system_user_vars, employee_vars, product_vars>>

\* Developer.code() of the e-th employee
Developer_code(e) ==
    /\ scope = "Employee"
    /\ e \in DOMAIN employees
    /\ employees[e].kind = "Developer"
    /\ Call("code", <<e>>, None, "is coding")
    /\ UNCHANGED <<other_vars, system_user_vars, employee_vars, product_vars>>

\* The team memberships added so far.
RECURSIVE Memberships(_)
Memberships(es) ==
    IF es = <<>> THEN 0 ELSE Len(Head(es).team) + Memberships(Tail(es))

\* Manager.add_team_member(employee) of the m-th employee
Manager_add_team_member(m, e) ==
    /\ scope = "Employee"
    /\ m \in DOMAIN employees
    /\ e \in DOMAIN employees
    /\ employees[m].kind = "Manager"
    /\ Memberships(employees) < MaxTeam
    /\ employees' = [employees EXCEPT ![m].team = Append(@, e)]
    /\ Call("add_team_member", <<m, e>>, None, "added to team")
    /\ UNCHANGED <<other_vars, system_user_vars, employee_count,
                   product_vars>>

\* Manager.conduct_meeting() of the m-th employee
Manager_conduct_meeting(m) ==
    /\ scope = "Employee"
    /\ m \in DOMAIN employees
    /\ employees[m].kind = "Manager"
    /\ Call("conduct_meeting", <<m>>, None, "is conducting a team meeting")
    /\ UNCHANGED <<other_vars, system_user_vars, employee_vars, product_vars>>

\* ----------------------------------------------------------------- Product

\* Product.__init__(name, price, quantity); prices are in cents.
Product(name, price, quantity) ==
    [name |-> name, price |-> price, quantity |-> quantity]

ProductNames == {"Laptop", "Phone"}
ProductPrices == {59999, 99999}
ProductQuantities == {3, 5}
ProductCandidates ==
    {Product(name, price, quantity) :
        name \in ProductNames, price \in ProductPrices,
        quantity \in ProductQuantities}

\* The right operand of an operator is a Product, named by its place in
\* products, or 0: an object that is no Product and has neither a name nor a
\* price, such as a str.
IsProduct(other) == other \in DOMAIN products

\* Product.__eq__(self, other)
Product_eq(self, other) ==
    /\ scope = "Product"
    /\ self \in DOMAIN products
    /\ other \in 0 .. Len(products)
    /\ IF ~IsProduct(other)
       THEN Call("Product.__eq__", <<self, other>>, Returned(FALSE), "")
       ELSE Call("Product.__eq__", <<self, other>>,
                 Returned(/\ products[self].name = products[other].name
                          /\ products[self].price = products[other].price),
                 "")
    /\ UNCHANGED <<other_vars, system_user_vars, employee_vars, product_vars>>

\* Product.__lt__(self, other)
Product_lt(self, other) ==
    /\ scope = "Product"
    /\ self \in DOMAIN products
    /\ other \in 0 .. Len(products)
    /\ IF ~IsProduct(other)
       THEN Raise("Product.__lt__", <<self, other>>, "AttributeError")
       ELSE Call("Product.__lt__", <<self, other>>,
                 Returned(products[self].price < products[other].price), "")
    /\ UNCHANGED <<other_vars, system_user_vars, employee_vars, product_vars>>

\* Mutant of Product.__add__: products of the same name are added whatever
\* their prices.
Product_add_by_name(self, other) ==
    /\ scope = "Product"
    /\ self \in DOMAIN products
    /\ other \in 0 .. Len(products)
    /\ IF ~IsProduct(other)
       THEN /\ Raise("Product.__add__", <<self, other>>, "AttributeError")
            /\ UNCHANGED products
       ELSE IF products[self].name = products[other].name
       THEN /\ Len(products) < MaxProducts
            /\ products' =
                  Append(products,
                         Product(products[self].name, products[self].price,
                                 products[self].quantity
                                    + products[other].quantity))
            /\ Call("Product.__add__", <<self, other>>,
                    Returned(Len(products) + 1), "")
       ELSE /\ Raise("Product.__add__", <<self, other>>, "ValueError")
            /\ UNCHANGED products
    /\ UNCHANGED <<other_vars, system_user_vars, employee_vars>>

\* Product.__add__(self, other); the Product it returns is a new object.
Product_add(self, other) ==
    /\ scope = "Product"
    /\ self \in DOMAIN products
    /\ other \in 0 .. Len(products)
    /\ IF ~IsProduct(other)
       THEN /\ Raise("Product.__add__", <<self, other>>, "AttributeError")
            /\ UNCHANGED products
       ELSE IF /\ products[self].name = products[other].name
               /\ products[self].price = products[other].price
       THEN /\ Len(products) < MaxProducts
            /\ products' =
                  Append(products,
                         Product(products[self].name, products[self].price,
                                 products[self].quantity
                                    + products[other].quantity))
            /\ Call("Product.__add__", <<self, other>>,
                    Returned(Len(products) + 1), "")
       ELSE /\ Raise("Product.__add__", <<self, other>>, "ValueError")
            /\ UNCHANGED products
    /\ UNCHANGED <<other_vars, system_user_vars, employee_vars>>

\* -------------------------------------------------------------------- Init

\* The class statements: the counters of SystemUser and Employee are 0 and no
\* object of either class exists.
Classes_init ==
    /\ users = <<>> /\ given_roles = [role \in InitialRoles |-> 0]
    /\ user_count = 0 /\ dev_count = 0
    /\ admin_count = 0 /\ regular_user_count = 0
    /\ employees = <<>> /\ employee_count = 0

NoObject ==
    /\ initial_balance = 0 /\ balance = 0 /\ acc_balance = 0
    /\ email = <<>> /\ password = <<>> /\ last_login = "None"

NoCall ==
    /\ op = "__init__"
    /\ arg = <<>>
    /\ ret = None
    /\ printed = ""
    /\ raised = FALSE
    /\ exception = ""

\* BankAccount.__init__(account_holder, initial_balance)
BankAccount_init ==
    /\ scope = "BankAccount"
    /\ initial_balance \in (0 - MaxInitial) .. MaxInitial
    /\ balance = initial_balance
    /\ acc_balance = 0
    /\ email = <<>> /\ password = <<>> /\ last_login = "None"

\* BankAcc.__init__(balance)
BankAcc_init ==
    /\ scope = "BankAcc"
    /\ acc_balance \in (0 - MaxInitial) .. MaxInitial
    /\ initial_balance = 0
    /\ balance = 0
    /\ email = <<>> /\ password = <<>> /\ last_login = "None"

\* User.__init__(username, email, password)
User_init ==
    /\ scope = "User"
    /\ email \in InitialEmails
    /\ password \in InitialPasswords
    /\ last_login = "None"
    /\ initial_balance = 0 /\ balance = 0 /\ acc_balance = 0

\* The SystemUser class, and the Employee class with its subclasses, before
\* any object is constructed.
SystemUser_class ==
    /\ scope = "SystemUser"
    /\ NoObject

Employee_class ==
    /\ scope = "Employee"
    /\ NoObject

\* No Product exists in a behaviour of another class.
NoProduct == products = <<>>

\* laptop1 = Product(...) and laptop2 = Product(...): two Products are
\* constructed before the operators are applied.
Product_init ==
    /\ scope = "Product"
    /\ NoObject
    /\ products \in
          {<<p, q>> : p \in ProductCandidates, q \in ProductCandidates}

Init ==
    /\ NoCall
    /\ Classes_init
    /\ \/ NoProduct /\ BankAccount_init
       \/ NoProduct /\ BankAcc_init
       \/ NoProduct /\ User_init
       \/ NoProduct /\ SystemUser_class
       \/ NoProduct /\ Employee_class
       \/ Product_init

Next ==
    \/ \E amount \in Amounts : BankAccount_deposit(amount)
    \/ \E amount \in Amounts : BankAccount_withdraw(amount)
    \/ BankAccount_get_balance
    \/ \E amount \in Amounts : BankAcc_deposit(amount)
    \/ BankAcc_get_balance
    \/ User_email_get
    \/ \E new_email \in EmailCandidates : User_email_set(new_email)
    \/ User_password_get
    \/ \E new_password \in PasswordCandidates : User_password_set(new_password)
    \/ User_login
    \/ \E role \in InitialRoles : SystemUser_new(role)
    \/ SystemUser_create_admin
    \/ \E i \in 1 .. MaxObjects : SystemUser_role_get(i)
    \/ \E i \in 1 .. MaxObjects, new_role \in RoleCandidates :
          SystemUser_role_set(i, new_role)
    \/ SystemUser_get_statistics
    \/ Employee_new
    \/ Developer_new
    \/ Manager_new
    \/ \E e \in 1 .. MaxObjects : Employee_work(e)
    \/ \E e \in 1 .. MaxObjects : Employee_get_salary(e)
    \/ \E e \in 1 .. MaxObjects : Developer_code(e)
    \/ \E m \in 1 .. MaxObjects, e \in 1 .. MaxObjects :
          Manager_add_team_member(m, e)
    \/ \E m \in 1 .. MaxObjects : Manager_conduct_meeting(m)
    \/ \E self \in 1 .. MaxProducts, other \in 0 .. MaxProducts :
          Product_eq(self, other)
    \/ \E self \in 1 .. MaxProducts, other \in 0 .. MaxProducts :
          Product_lt(self, other)
    \/ \E self \in 1 .. MaxProducts, other \in 0 .. MaxProducts :
          Product_add(self, other)

Spec == Init /\ [][Next]_vars

\* ------------------------------------------------- messages of the classes

\* The lines the classes print with a leading check mark (an accepted write)
\* and with a leading cross (a rejected write).
AcceptedMessages ==
    {"Deposited", "Withdrew", "Email updated", "Password changed",
     "Role changed"}
RejectedMessages ==
    {"Invalid amount. Must be positive.", "Insufficient funds.",
     "Invalid email format. Email not changed.",
     "Password too short! Must be at least 8 characters.",
     "Invalid role. Must be one of: DEVELOPER, ADMIN, USER"}

\* ------------------------------------------------------------------ claims

\* C1: BankAccount.withdraw(a) sets the balance to balance_before - a when
\* 0 < a <= balance_before, and otherwise leaves the balance as it was and
\* reports a rejection (prints a rejection line).
C1_WithdrawContract ==
    [][op' = "BankAccount.withdraw" =>
          LET a == arg'[1] IN
          IF 0 < a /\ a <= balance
          THEN balance' = balance - a /\ printed' \notin RejectedMessages
          ELSE balance' = balance /\ printed' \in RejectedMessages]_vars

\* C1 witness: a withdrawal of more than the (positive) balance was rejected.
C1_Witness ==
    /\ op = "BankAccount.withdraw"
    /\ balance > 0
    /\ arg[1] > balance
    /\ printed = "Insufficient funds."

\* C2: after BankAccount.deposit(a) with a > 0 the balance is
\* balance_before + a.
C2_DepositAdds ==
    [][(op' = "BankAccount.deposit" /\ arg'[1] > 0) =>
          balance' = balance + arg'[1]]_vars

\* C2 witness: a positive deposit was made on top of a positive balance.
C2_Witness ==
    /\ op = "BankAccount.deposit"
    /\ arg[1] > 0
    /\ balance > arg[1]
    /\ printed = "Deposited"

\* C3: every deposit-like operation (BankAccount.deposit and BankAcc.deposit)
\* rejects an amount <= 0: the balance after the call equals the balance
\* before it.
C3_DepositsRejectNonPositive ==
    [][(op' \in {"BankAccount.deposit", "BankAcc.deposit"} /\ arg'[1] <= 0) =>
          (balance' = balance /\ acc_balance' = acc_balance)]_vars

\* C4: a BankAccount constructed with an initial balance >= 0 has a balance
\* >= 0 in every reachable state, and no withdraw call moves the balance from
\* a non-negative to a negative value.
C4_BalanceNeverNegative ==
    /\ [](initial_balance >= 0 => balance >= 0)
    /\ [][(op' = "BankAccount.withdraw" /\ balance >= 0) => balance' >= 0]_vars

\* C4 witness: a withdrawal emptied an account that was opened with a
\* non-negative balance.
C4_Witness ==
    /\ scope = "BankAccount"
    /\ initial_balance >= 0
    /\ op = "BankAccount.withdraw"
    /\ printed = "Withdrew"
    /\ balance = 0


\* ----------------------------------------- the claims' own reading of strings

\* ch occurs in s.
HasChar(s, ch) == ch \in {s[k] : k \in DOMAIN s}

\* t is s with every lower-case letter replaced by its upper-case letter.
IsUpperCased(t, s) ==
    /\ Len(t) = Len(s)
    /\ \A k \in DOMAIN s :
          t[k] = IF s[k] \in DOMAIN ToUpper THEN ToUpper[s[k]] ELSE s[k]

\* t is s with every upper-case letter replaced by its lower-case letter.
IsLowerCased(t, s) ==
    /\ Len(t) = Len(s)
    /\ \A k \in DOMAIN s :
          t[k] = IF s[k] \in DOMAIN ToLower THEN ToLower[s[k]] ELSE s[k]

\* s without its first i and its last j characters is s without its leading
\* and trailing blanks: the characters left out are blanks, and what is left
\* neither begins nor ends with a blank.
IsTrimming(s, i, j) ==
    /\ i + j <= Len(s)
    /\ \A k \in 1 .. i : s[k] = " "
    /\ \A k \in 1 .. j : s[Len(s) + 1 - k] = " "
    /\ i + j < Len(s) => (s[i + 1] # " " /\ s[Len(s) - j] # " ")

\* r is, case-insensitively, the role R.
IsRole(r, R) == IsUpperCased(R, r)

\* r is, case-insensitively, one of VALID_ROLES.
IsValidRole(r) == \E R \in VALID_ROLES : IsRole(r, R)

\* ------------------------------------------------------------------- User

\* C5: user.email = c stores the lower-cased, whitespace-trimmed c when c
\* contains both "@" and ".", and otherwise leaves the stored email as it was.
C5_EmailSetter ==
    [][op' = "User.email.setter" =>
          LET c == arg'[1] IN
          IF HasChar(c, "@") /\ HasChar(c, ".")
          THEN \E i, j \in 0 .. Len(c) :
                  /\ IsTrimming(c, i, j)
                  /\ IsLowerCased(email', SubSeq(c, i + 1, Len(c) - j))
          ELSE email' = email]_vars

\* C5 witness: a candidate with blanks around it and upper-case letters in it
\* was stored trimmed and lower-cased.
C5_Witness ==
    /\ op = "User.email.setter"
    /\ arg[1] = <<" ", "B", "o", "b", "@", "G", ".", "c", "o", " ">>
    /\ email = <<"b", "o", "b", "@", "g", ".", "c", "o">>

\* C6: user.password = p stores p when len(p) >= 8, and otherwise leaves the
\* stored password as it was.
C6_PasswordSetter ==
    [][op' = "User.password.setter" =>
          password' = IF Len(arg'[1]) >= 8 THEN arg'[1] ELSE password]_vars

\* C6 witness: a password of exactly 8 characters replaced another password.
C6_Witness ==
    /\ op = "User.password.setter"
    /\ Len(arg[1]) = 8
    /\ password = arg[1]

\* ------------------------------------------------------------- SystemUser

RECURSIVE SumOver(_, _)
SumOver(S, f) ==
    IF S = {} THEN 0
    ELSE LET x == CHOOSE y \in S : TRUE IN f[x] + SumOver(S \ {x}, f)

\* The number of constructions so far, and of those given the role R in any
\* mix of upper and lower case.
Constructions == SumOver(DOMAIN given_roles, given_roles)
ConstructionsAs(R) ==
    SumOver({r \in DOMAIN given_roles : IsRole(r, R)}, given_roles)

\* Every SystemUser so far was constructed with a role of VALID_ROLES.
OnlyValidRolesGiven ==
    \A r \in DOMAIN given_roles : given_roles[r] > 0 => IsValidRole(r)

\* C7: after constructions with roles of VALID_ROLES (in any case, directly
\* or through create_admin), get_statistics() returns the number of
\* constructions as total_users and the number of constructions with the role
\* DEVELOPER, ADMIN and USER as developers, admins and regular_users.
C7_Statistics ==
    (op = "SystemUser.get_statistics" /\ OnlyValidRolesGiven) =>
        ret = <<[total_users |-> Constructions,
                 developers |-> ConstructionsAs(DEVELOPER),
                 admins |-> ConstructionsAs(ADMIN),
                 regular_users |-> ConstructionsAs(USER)]>>

\* C7 witness: the statistics after constructing users with the roles
\* Developer, Developer and USER.
C7_Witness ==
    /\ op = "SystemUser.get_statistics"
    /\ given_roles[<<"D", "e", "v", "e", "l", "o", "p", "e", "r">>] = 2
    /\ given_roles[USER] = 1
    /\ ret = <<[total_users |-> 3, developers |-> 2, admins |-> 0,
               regular_users |-> 1]>>

\* C8: the counters of SystemUser and Employee start at 0 and no operation
\* ever lowers one of them.
C8_CountersMonotone ==
    /\ user_count = 0 /\ dev_count = 0 /\ admin_count = 0
    /\ regular_user_count = 0 /\ employee_count = 0
    /\ [][/\ user_count' >= user_count
          /\ dev_count' >= dev_count
          /\ admin_count' >= admin_count
          /\ regular_user_count' >= regular_user_count
          /\ employee_count' >= employee_count]_vars

\* C8 witness: the role of the only developer was changed, and the counter of
\* the developers is as it was.
C8_Witness ==
    /\ op = "SystemUser.role.setter"
    /\ printed = "Role changed"
    /\ dev_count = 1
    /\ \A k \in DOMAIN users : users[k].role # DEVELOPER

\* C10: users[i].role = r stores the upper-cased r when that is one of
\* VALID_ROLES, and otherwise leaves the role and every other field of the
\* user as they were; a role of VALID_ROLES stays one under any role write.
C10_RoleSetter ==
    [][op' = "SystemUser.role.setter" =>
          LET i == arg'[1]
              r == arg'[2]
          IN  /\ IF IsValidRole(r)
                 THEN /\ IsUpperCased(users'[i].role, r)
                      /\ users' = [users EXCEPT ![i].role = users'[i].role]
                 ELSE users' = users
              /\ \A k \in DOMAIN users :
                    users[k].role \in VALID_ROLES =>
                        users'[k].role \in VALID_ROLES]_vars

\* C10 witness: a lower-case role was stored in upper case.
C10_Witness ==
    /\ op = "SystemUser.role.setter"
    /\ arg[2] = <<"a", "d", "m", "i", "n">>
    /\ users[arg[1]].role = ADMIN
    /\ printed = "Role changed"

\* --------------------------------------------------------- guarded writes

GuardedWrites ==
    {"BankAccount.deposit", "BankAccount.withdraw", "User.email.setter",
     "User.password.setter", "SystemUser.role.setter"}

\* The step is a guarded write whose value breaks the rule of its field.
RejectedWrite ==
    \/ op' = "BankAccount.withdraw" /\ (arg'[1] <= 0 \/ arg'[1] > balance)
    \/ op' = "BankAccount.deposit" /\ arg'[1] <= 0
    \/ op' = "User.email.setter"
          /\ ~(HasChar(arg'[1], "@") /\ HasChar(arg'[1], "."))
    \/ op' = "User.password.setter" /\ Len(arg'[1]) < 8
    \/ op' = "SystemUser.role.setter" /\ ~IsValidRole(arg'[2])

\* Every field and every counter is as it was.
NothingMutated ==
    UNCHANGED <<initial_balance, balance, acc_balance, email, password,
                last_login, users, given_roles, user_count, dev_count,
                admin_count, regular_user_count, employees, employee_count,
                products>>

\* C9, as claimed: a rejected guarded write raises no exception, mutates
\* nothing and gives its caller a result that differs from the result of an
\* accepted write (which is None).
C9_RejectionResult ==
    [][RejectedWrite =>
          /\ raised' = FALSE
          /\ NothingMutated
          /\ ret' # None]_vars

\* C9, amended: a rejected guarded write raises no exception, mutates nothing
\* and prints a rejection line, which no accepted write prints; the value
\* returned is None for rejected and accepted writes alike.
C9_RejectionPrinted ==
    /\ AcceptedMessages \cap RejectedMessages = {}
    /\ [][op' \in GuardedWrites =>
              IF RejectedWrite
              THEN /\ raised' = FALSE
                   /\ NothingMutated
                   /\ printed' \in RejectedMessages
                   /\ ret' = None
              ELSE /\ raised' = FALSE
                   /\ printed' \in AcceptedMessages
                   /\ ret' = None]_vars

\* C9 witness: the assignment of a short password was refused.
C9_Witness ==
    /\ op = "User.password.setter"
    /\ Len(arg[1]) < 8
    /\ password # arg[1]
    /\ printed = "Password too short! Must be at least 8 characters."
    /\ ret = None
    /\ raised = FALSE


\* ---------------------------------------------- Employee, Developer, Manager

Constructors == {"Employee", "Developer", "Manager"}

\* C11: constructing an Employee, a Developer or a Manager never fails and
\* increments Employee.employee_count by exactly 1, so after n constructions
\* of any mix of the three kinds employee_count is n.
C11_EmployeeCount ==
    /\ [](employee_count = Len(employees))
    /\ [][op' \in Constructors =>
             /\ raised' = FALSE
             /\ Len(employees') = Len(employees) + 1
             /\ employees'[Len(employees')].kind = op'
             /\ employee_count' = employee_count + 1]_vars

\* C11 witness: 2 Developers and 1 Manager were constructed, and the count
\* is 3.
C11_Witness ==
    /\ Len(employees) = 3
    /\ employees[1].kind = "Developer"
    /\ employees[2].kind = "Developer"
    /\ employees[3].kind = "Manager"
    /\ op = "Manager"
    /\ employee_count = 3


\* ------------------------------------------------------------------ reads

Getters ==
    {"BankAccount.get_balance", "User.email", "SystemUser.role",
     "SystemUser.get_statistics"}

\* C12: BankAccount.get_balance, the User.email getter, the SystemUser.role
\* getter and SystemUser.get_statistics return the values stored when they are
\* called and leave every field and every counter as it was.
C12_ReadsAreFree ==
    [][op' \in Getters =>
          /\ raised' = FALSE
          /\ NothingMutated
          /\ ret' = CASE op' = "BankAccount.get_balance" -> <<balance>>
                      [] op' = "User.email" -> <<email>>
                      [] op' = "SystemUser.role" -> <<users[arg'[1]].role>>
                      [] op' = "SystemUser.get_statistics" ->
                            <<[total_users |-> user_count,
                               developers |-> dev_count,
                               admins |-> admin_count,
                               regular_users |-> regular_user_count]>>]_vars

\* C12 witness: the balance was read after deposits or withdrawals changed it.
C12_Witness ==
    /\ op = "BankAccount.get_balance"
    /\ balance # initial_balance
    /\ ret = <<balance>>

C14_ProductOperators ==
    [][/\ (op' = "Product.__add__" /\ arg'[2] \in DOMAIN products) =>
             LET a == products[arg'[1]]
                 b == products[arg'[2]]
             IN  IF a.name = b.name /\ a.price = b.price
                 THEN /\ raised' = FALSE
                      /\ ret' = <<Len(products) + 1>>
                      /\ products' =
                           Append(products,
                                  [name |-> a.name, price |-> a.price,
                                   quantity |-> a.quantity + b.quantity])
                 ELSE /\ raised' = TRUE
                      /\ exception' = "ValueError"
                      /\ products' = products
       /\ op' = "Product.__eq__" =>
             /\ raised' = FALSE
             /\ products' = products
             /\ ret' = <<(/\ arg'[2] \in DOMAIN products
                          /\ products[arg'[1]].name = products[arg'[2]].name
                          /\ products[arg'[1]].price
                                = products[arg'[2]].price)>>]_vars

\* C14 witness: two distinct Products of the same name and price and of
\* different quantities were added.
C14_Witness ==
    /\ op = "Product.__add__"
    /\ raised = FALSE
    /\ arg[1] # arg[2]
    /\ products[arg[1]].quantity # products[arg[2]].quantity
    /\ products[ret[1]].quantity
          = products[arg[1]].quantity + products[arg[2]].quantity

\* ------------------------------------------------ counters of SystemUser

\* The users that hold the role R now.
Holders(R) == {k \in DOMAIN users : users[k].role = R}

\* C15: a write to the role of a user, accepted or rejected, leaves user_count,
\* dev_count, admin_count and regular_user_count as they were, so that the
\* counters of the roles count the roles given at construction.
C15_RoleWriteKeepsCounters ==
    /\ [](/\ user_count = Constructions
          /\ dev_count = ConstructionsAs(DEVELOPER)
          /\ admin_count = ConstructionsAs(ADMIN)
          /\ regular_user_count
                = Constructions - ConstructionsAs(DEVELOPER)
                                - ConstructionsAs(ADMIN))
    /\ [][op' = "SystemUser.role.setter" =>
             /\ user_count' = user_count
             /\ dev_count' = dev_count
             /\ admin_count' = admin_count
             /\ regular_user_count' = regular_user_count]_vars

\* C15 witness: after an accepted role write the counter of the admins is not
\* the number of users that are admins now.
C15_Witness ==
    /\ op = "SystemUser.role.setter"
    /\ printed = "Role changed"
    /\ admin_count # Cardinality(Holders(ADMIN))
    /\ admin_count = ConstructionsAs(ADMIN)

SystemUserConstructors == {"SystemUser", "SystemUser.create_admin"}

\* C16: user_count = dev_count + admin_count + regular_user_count in every
\* reachable state: a construction with any role adds 1 to user_count and 1 to
\* exactly one of the three other counters, that of the regular users for
\* every role that is neither DEVELOPER nor ADMIN, a role of VALID_ROLES or not.
C16_CountersAddUp ==
    /\ [](user_count = dev_count + admin_count + regular_user_count)
    /\ [][op' \in SystemUserConstructors =>
             LET role == arg'[1]
                 dev == IF IsRole(role, DEVELOPER) THEN 1 ELSE 0
                 admin == IF IsRole(role, ADMIN) THEN 1 ELSE 0
             IN  /\ raised' = FALSE
                 /\ user_count' = user_count + 1
                 /\ dev_count' = dev_count + dev
                 /\ admin_count' = admin_count + admin
                 /\ regular_user_count'
                       = regular_user_count + (1 - dev - admin)]_vars

\* C16 witness: a user was constructed with a role that is not of VALID_ROLES
\* and was counted as a regular user.
C16_Witness ==
    /\ op = "SystemUser"
    /\ ~IsValidRole(arg[1])
    /\ regular_user_count = Constructions - ConstructionsAs(DEVELOPER)
                                          - ConstructionsAs(ADMIN)
    /\ ConstructionsAs(USER) < regular_user_count
    /\ user_count = dev_count + admin_count + regular_user_count

=============================================================================
